---- MODULE Spec2Model ----
(***************************************************************************)
(* Dbcube schema-builder: the dependency resolver (DependencyResolver),    *)
(* the persisted execution order, the table runs of Schema and the cube    *)
(* validator, as state machines.                                           *)
(*                                                                         *)
(* A cube file is identified by its position in the scan list returned by  *)
(* FileUtils.getCubeFilesRecursively: file i is the i-th path.  The code   *)
(* never looks inside a path except to read the file, so paths are opaque. *)
(***************************************************************************)
EXTENDS Integers, Sequences, FiniteSets, TLC

VARIABLES
    cube,       \* the cube files on disk: file i |-> [name, deps]
    ts,         \* the locals of one topologicalSort call
    orderFile,  \* .dbcube/orderexecute.json: absent, unreadable or its text
    call,       \* the last call of the resolver's public API, with what it returned
    run,        \* the locals of one refreshTables / freshTables run
    vfile,      \* the cube file handed to the validator: readable, path kind, lines
    vres        \* what validateCubeFile returned for it

vars == <<cube, ts, orderFile, call, run, vfile, vres>>

(***************************************************************************)
(* Bounds and name universe                                                *)
(***************************************************************************)
\* table names a cube file can declare
Tables == {"A", "B", "C"}
\* a referenced table name that no cube file declares
Unknown == "X"
RefNames == Tables \cup {Unknown}
\* at most as many cube files as there are table names
MaxFiles == Cardinality(Tables)
\* total number of foreign references over all the cube files of a sort
MaxRefs == 3
\* the same total for the cube files the public calls work on
MaxCallRefs == 1
\* the same total for the cube files of a refreshTables / freshTables run
MaxRunRefs == 2
\* blank lines between a type line and the length line that follows it
MaxGap == 4
\* the lines of a file handed to the scans for foreign key references
MaxLines == 4

SeqOfLen(S, k) == [1..k -> S]
Range(s) == {s[i] : i \in 1..Len(s)}
NoDup(s) == \A i, j \in 1..Len(s) : s[i] = s[j] => i = j
Includes(s, x) == \E i \in 1..Len(s) : s[i] = x
\* first index of x in s (0 when absent)
IndexOf(s, x) == IF Includes(s, x) THEN CHOOSE i \in 1..Len(s) : s[i] = x /\ \A j \in 1..(i-1) : s[j] # x ELSE 0

RECURSIVE SumTo(_, _)
\* lens[1] + ... + lens[i]
SumTo(lens, i) == IF i = 0 THEN 0 ELSE lens[i] + SumTo(lens, i - 1)
\* the cube files with the given names, file i holding lens[i] of the references
MakeCube(names, lens, refs) ==
    [i \in 1..Len(names) |->
        [name |-> names[i],
         deps |-> SubSeq(refs, SumTo(lens, i - 1) + 1, SumTo(lens, i))]]
\* c is any content of at most MaxFiles files with at most maxRefs references
AnyCube(c, maxRefs) ==
    \E n \in 0..MaxFiles :
      \E names \in [1..n -> Tables] :
        \E lens \in [1..n -> 0..maxRefs] :
          /\ SumTo(lens, n) <= maxRefs
          /\ \E refs \in [1..SumTo(lens, n) -> RefNames] :
                c = MakeCube(names, lens, refs)

(***************************************************************************)
(* DependencyResolver.extractDependencies                                  *)
(***************************************************************************)
\* the table name a file resolves to (@meta name, else the file's basename)
TableNameOf(c, f) == c[f].name
\* the names assigned by table: "X" inside the file's foreign blocks
extractForeignKeyReferences(c, f) == c[f].deps
\* one TableDependency per file, in the order of the list
extractDependencies(c, cubeFiles) ==
    [i \in 1..Len(cubeFiles) |->
        [tableName |-> TableNameOf(c, cubeFiles[i]),
         filePath |-> cubeFiles[i],
         dependencies |-> extractForeignKeyReferences(c, cubeFiles[i])]]
\* the scan list: every cube file, in scan order
ScanList(c) == [i \in 1..Len(c) |-> i]

(***************************************************************************)
(* DependencyResolver.topologicalSort                                      *)
(***************************************************************************)
RECURSIVE FirstSeen(_)
\* keys of a Map filled by set() over the list: first-insertion order
FirstSeen(names) ==
    IF names = <<>> THEN <<>>
    ELSE LET front == FirstSeen(SubSeq(names, 1, Len(names) - 1))
             last == names[Len(names)]
         IN IF Includes(front, last) THEN front ELSE Append(front, last)

NamesOf(dependencies) == [i \in 1..Len(dependencies) |-> dependencies[i].tableName]

\* graph.set(dep.tableName, dep.dependencies): the last file of a name wins
BuildGraph(dependencies) ==
    [t \in Range(NamesOf(dependencies)) |->
        LET last == CHOOSE i \in 1..Len(dependencies) :
                        /\ dependencies[i].tableName = t
                        /\ \A j \in (i+1)..Len(dependencies) : dependencies[j].tableName # t
        IN dependencies[last].dependencies]

\* a count of every entry of deps, known or not
KnownCountAll(deps, known) == Len(deps)
\* how many entries of deps name a known table
KnownCount(deps, known) == Cardinality({i \in 1..Len(deps) : deps[i] \in known})

\* in-degrees left at the zero of the first loop
BuildInDegreeUncounted(dependencies) == [t \in Range(NamesOf(dependencies)) |-> 0]
\* in-degree of t: one per reference to a known table, over every file named t
BuildInDegree(dependencies) ==
    LET known == Range(NamesOf(dependencies))
    IN [t \in known |->
          LET mine == {i \in 1..Len(dependencies) : dependencies[i].tableName = t}
              cnt[S \in SUBSET mine] ==
                  IF S = {} THEN 0
                  ELSE LET i == CHOOSE x \in S : TRUE
                       IN KnownCount(dependencies[i].dependencies, known) + cnt[S \ {i}]
          IN cnt[mine]]

\* the locals of topologicalSort before its first loop
SortStart(dependencies) ==
    [pc |-> "build", dependencies |-> dependencies, nodes |-> <<>>,
     graph |-> <<>>, inDegree |-> <<>>, queue |-> <<>>, result |-> <<>>]

\* lines 139-153: graph, inDegree (keys in first-insertion order)
BuildStep(s) ==
    [s EXCEPT !.pc = "seed",
              !.nodes = FirstSeen(NamesOf(s.dependencies)),
              !.graph = BuildGraph(s.dependencies),
              !.inDegree = BuildInDegree(s.dependencies)]

\* the nodes of in-degree zero, last inserted first
SeedQueueReversed(s) ==
    LET zero == SelectSeq(s.nodes, LAMBDA t : s.inDegree[t] = 0)
    IN [s EXCEPT !.pc = "kahn",
                 !.queue = [i \in 1..Len(zero) |-> zero[Len(zero) + 1 - i]]]
\* lines 159-164: every node of in-degree zero, in Map order
SeedQueue(s) ==
    [s EXCEPT !.pc = "kahn",
              !.queue = SelectSeq(s.nodes, LAMBDA t : s.inDegree[t] = 0)]

RECURSIVE Relax(_, _, _)
\* lines 173-182: for each neighbor of the dequeued node, in order
Relax(neighbors, inDegree, queue) ==
    IF neighbors = <<>> THEN [inDegree |-> inDegree, queue |-> queue]
    ELSE LET nb == Head(neighbors)
         IN IF nb \in DOMAIN inDegree
            THEN LET newDegree == inDegree[nb] - 1
                 IN Relax(Tail(neighbors),
                          [inDegree EXCEPT ![nb] = newDegree],
                          IF newDegree = 0 THEN Append(queue, nb) ELSE queue)
            ELSE Relax(Tail(neighbors), inDegree, queue)

\* queue.shift(): the queue without its head
ShiftKeep(queue) == queue
Shift(queue) == Tail(queue)

\* lines 166-183: one iteration of the while loop
KahnIteration(s) ==
    LET current == Head(s.queue)
        currentDeps == s.graph[current]
        r == Relax(currentDeps, s.inDegree, Shift(s.queue))
    IN [s EXCEPT !.result = Append(s.result, current),
                 !.inDegree = r.inDegree,
                 !.queue = r.queue]

RECURSIVE AppendMissingReversed(_, _)
\* the missing names pushed from the last file of the list to the first
AppendMissingReversed(names, result) ==
    IF names = <<>> THEN result
    ELSE AppendMissingReversed(SubSeq(names, 1, Len(names) - 1),
                               IF Includes(result, names[Len(names)]) THEN result
                               ELSE Append(result, names[Len(names)]))
RECURSIVE AppendMissing(_, _)
\* lines 188-192: push each table name the result does not include yet
AppendMissing(names, result) ==
    IF names = <<>> THEN result
    ELSE AppendMissing(Tail(names),
                       IF Includes(result, Head(names)) THEN result
                       ELSE Append(result, Head(names)))

\* the fallback without the includes() test
FallbackAll(s) ==
    [s EXCEPT !.pc = "done",
              !.result = IF Len(s.result) # Len(s.dependencies)
                         THEN s.result \o NamesOf(s.dependencies)
                         ELSE s.result]
\* lines 185-195: the circular-dependency fallback, then return
Fallback(s) ==
    [s EXCEPT !.pc = "done",
              !.result = IF Len(s.result) # Len(s.dependencies)
                         THEN AppendMissing(NamesOf(s.dependencies), s.result)
                         ELSE s.result]

\* one step of topologicalSort
SortStep(s) ==
    CASE s.pc = "build" -> BuildStep(s)
      [] s.pc = "seed" -> SeedQueue(s)
      [] s.pc = "kahn" -> IF s.queue # <<>> THEN KahnIteration(s)
                          ELSE [s EXCEPT !.pc = "fallback"]
      [] s.pc = "fallback" -> Fallback(s)
      [] OTHER -> s

RECURSIVE SortRun(_)
SortRun(s) == IF s.pc = "done" THEN s ELSE SortRun(SortStep(s))
\* the list topologicalSort returns
topologicalSort(dependencies) == SortRun(SortStart(dependencies)).result

(***************************************************************************)
(* The persisted execution order: save, load, resolve, reorder             *)
(***************************************************************************)
CubeTypes == {"table", "seeder"}
\* the states of the order file: no file, a file that cannot be read, a text
Absent == [state |-> "absent"]
Unreadable == [state |-> "unreadable"]
TextFile(text) == [state |-> "text", text |-> text]
\* the null a failed load returns
Null == [null |-> TRUE]
NoCall == [op |-> "none"]
\* no file under validation, no result yet
\* path pieces: the suffixes of cube file names are one piece each
TableSuffix == ".table.cube"
SeederSuffix == ".seeder.cube"
NoFile == [readable |-> FALSE, path |-> <<>>, lines |-> <<>>]
NoResult == [returned |-> FALSE, isValid |-> FALSE, errors |-> <<>>]
RunModes == {"refresh", "fresh"}
\* the locals before a run starts
RunIdle ==
    [mode |-> "none", pc |-> "idle", ordered |-> <<>>, index |-> 0,
     failedTables |-> {}, errors |-> <<>>, processedTables |-> <<>>,
     engineLog |-> {}, status |-> 200]

\* JSON.stringify(order): the text written, token by token (the timestamp
\* field is left out: no operation reads it back)
JsonStringify(order) ==
    <<"{", "tables", "[">> \o order.tables \o <<"]", "seeders", "[">>
        \o order.seeders \o <<"]", "}">>

\* the index of the first "]" of text after position from (0 when none)
CloseAfter(text, from) ==
    IF \E i \in (from + 1)..Len(text) : text[i] = "]"
    THEN CHOOSE i \in (from + 1)..Len(text) :
            text[i] = "]" /\ \A j \in (from + 1)..(i - 1) : text[j] # "]"
    ELSE 0

\* JSON.parse(content): the object, or Null standing for the SyntaxError
JsonParse(text) ==
    LET c1 == CloseAfter(text, 3)
        c2 == CloseAfter(text, c1 + 2)
    IN IF /\ Len(text) >= 8
          /\ SubSeq(text, 1, 3) = <<"{", "tables", "[">>
          /\ c1 # 0
          /\ c1 + 2 <= Len(text)
          /\ SubSeq(text, c1 + 1, c1 + 2) = <<"seeders", "[">>
          /\ c2 # 0
          /\ c2 + 1 = Len(text)
          /\ text[c2 + 1] = "}"
       THEN [tables |-> SubSeq(text, 4, c1 - 1),
             seeders |-> SubSeq(text, c1 + 3, c2 - 1)]
       ELSE Null

\* texts of an order file that was cut short or edited by hand
GarbageTexts == {TextFile(<<>>), TextFile(<<"{", "tables", "[">>)}

\* saveExecutionOrder: the file after writeFileSync
saveExecutionOrder(order) == TextFile(JsonStringify(order))

\* a load that answers an empty order for a missing or broken file
loadOrEmpty(file) ==
    IF file = Absent \/ file = Unreadable \/ JsonParse(file.text) = Null
    THEN [tables |-> <<>>, seeders |-> <<>>]
    ELSE JsonParse(file.text)
\* loadExecutionOrder: null when the file is absent, unreadable or unparsable
loadExecutionOrder(file) ==
    IF file = Absent THEN Null
    ELSE IF file = Unreadable THEN Null
    ELSE JsonParse(file.text)

\* the ExecutionOrder built at lines 26-30
ExecutionOrderBoth(orderedTables, cubeType) ==
    [tables |-> orderedTables, seeders |-> orderedTables]
\* a seeder order that is recorded as the tables list too
ExecutionOrderSeedersAsTables(orderedTables, cubeType) ==
    [tables |-> orderedTables,
     seeders |-> IF cubeType = "seeder" THEN orderedTables ELSE <<>>]
ExecutionOrderOf(orderedTables, cubeType) ==
    [tables |-> IF cubeType = "table" THEN orderedTables ELSE <<>>,
     seeders |-> IF cubeType = "seeder" THEN orderedTables ELSE <<>>]

\* resolveDependencies: the order it returns (and saves)
resolveDependencies(c, cubeFiles, cubeType) ==
    ExecutionOrderOf(topologicalSort(extractDependencies(c, cubeFiles)), cubeType)

\* a set() that keeps the first value of a key
MapSetKeepFirst(map, key, value) ==
    IF \E i \in 1..Len(map) : map[i].key = key THEN map
    ELSE Append(map, [key |-> key, value |-> value])
\* Map.set(key, value): a new key goes last, a known key keeps its place
MapSet(map, key, value) ==
    IF \E i \in 1..Len(map) : map[i].key = key
    THEN [i \in 1..Len(map) |->
            IF map[i].key = key THEN [key |-> key, value |-> value] ELSE map[i]]
    ELSE Append(map, [key |-> key, value |-> value])
MapHas(map, key) == \E i \in 1..Len(map) : map[i].key = key
MapGet(map, key) == map[CHOOSE i \in 1..Len(map) : map[i].key = key].value
MapDelete(map, key) == SelectSeq(map, LAMBDA e : e.key # key)
MapValues(map) == [i \in 1..Len(map) |-> map[i].value]

RECURSIVE BuildFileMap(_, _, _)
\* lines 258-263: table name |-> file, over the input list
BuildFileMap(c, cubeFiles, map) ==
    IF cubeFiles = <<>> THEN map
    ELSE BuildFileMap(c, Tail(cubeFiles),
                      MapSet(map, TableNameOf(c, Head(cubeFiles)), Head(cubeFiles)))

\* the files taken in Map order, whatever the stored order
TakeInMapOrder(orderList, map, orderedFiles) ==
    [map |-> SelectSeq(map, LAMBDA e : ~Includes(orderList, e.key)),
     orderedFiles |-> orderedFiles
        \o MapValues(SelectSeq(map, LAMBDA e : Includes(orderList, e.key)))]
RECURSIVE TakeOrdered(_, _, _)
\* lines 266-271: the files of the stored names, in stored order
TakeOrdered(orderList, map, orderedFiles) ==
    IF orderList = <<>> THEN [map |-> map, orderedFiles |-> orderedFiles]
    ELSE IF MapHas(map, Head(orderList))
         THEN TakeOrdered(Tail(orderList), MapDelete(map, Head(orderList)),
                          Append(orderedFiles, MapGet(map, Head(orderList))))
         ELSE TakeOrdered(Tail(orderList), map, orderedFiles)

Reverse(q) == [i \in 1..Len(q) |-> q[Len(q) + 1 - i]]
\* the files left in the map added newest first
AppendRemainingReversed(orderedFiles, map) == orderedFiles \o Reverse(MapValues(map))
\* lines 274-276: the files left in the map, in Map order, go last
AppendRemaining(orderedFiles, map) == orderedFiles \o MapValues(map)

\* an order list taken from the list of the category asked for
OrderListByType(executionOrder, cubeType) ==
    IF cubeType = "seeder" THEN executionOrder.seeders ELSE executionOrder.tables
\* line 252: const orderList = executionOrder.tables, whatever cubeType is
OrderList(executionOrder, cubeType) == executionOrder.tables

\* orderCubeFiles: the list returned
orderCubeFiles(c, file, cubeFiles, cubeType) ==
    LET executionOrder == loadExecutionOrder(file)
    IN IF executionOrder = Null THEN cubeFiles
       ELSE LET orderList == OrderList(executionOrder, cubeType)
                fileMap == BuildFileMap(c, cubeFiles, <<>>)
                t == TakeOrdered(orderList, fileMap, <<>>)
            IN AppendRemaining(t.orderedFiles, t.map)

(***************************************************************************)
(* CubeValidator: a line is the sequence of its tokens (words, punctuation *)
(* marks, single spaces); a file is the sequence of its lines.             *)
(***************************************************************************)
DQ == "\""
SQ == "'"
SP == " "
Slashes == "//"
Marks == {"@", ":", "{", "}", "[", "]", "(", ")", ";", ",", DQ, SQ, SP, Slashes}
\* words that start with a digit
Numerals == {"255"}
\* what a position past the end of the line holds
EndOfLine == "<eol>"
\* \w+
IsWord(t) == t \notin Marks \cup {EndOfLine}
\* [a-zA-Z_][a-zA-Z0-9_]*
IsIdent(t) == IsWord(t) /\ t \notin Numerals
\* the token at position i
At(line, i) == IF i \in 1..Len(line) THEN line[i] ELSE EndOfLine
RECURSIVE SkipSpaces(_, _)
\* \s* from position i: the first position that holds no space
SkipSpaces(line, i) ==
    IF i <= Len(line) /\ line[i] = SP THEN SkipSpaces(line, i + 1) ELSE i
RECURSIVE SkipSpacesBack(_, _)
SkipSpacesBack(line, i) ==
    IF i >= 1 /\ line[i] = SP THEN SkipSpacesBack(line, i - 1) ELSE i
\* s.trim()
Trim(line) == SubSeq(line, SkipSpaces(line, 1), SkipSpacesBack(line, Len(line)))
\* s.includes(part)
Contains(line, part) ==
    \E i \in 1..(Len(line) - Len(part) + 1) : SubSeq(line, i, i + Len(part) - 1) = part
CountOf(line, t) == Cardinality({i \in 1..Len(line) : line[i] = t})
Positions(n) == [i \in 1..n |-> i]

validTypes ==
    {"varchar", "int", "string", "text", "boolean", "date", "datetime", "timestamp",
     "decimal", "float", "double", "enum", "json"}
validOptions ==
    {<<"not", SP, "null">>, <<"primary">>, <<"autoincrement">>, <<"unique">>,
     <<"zerofill">>, <<"index">>, <<"required">>, <<"unsigned">>}
validProperties ==
    {"type", "length", "options", "value", "defaultValue", "foreign", "enumValues",
     "description"}
knownAnnotations ==
    {"database", "table", "meta", "columns", "fields", "dataset", "beforeAdd",
     "afterAdd", "beforeUpdate", "afterUpdate", "beforeDelete", "afterDelete",
     "compute", "column"}
validForeignKeyProperties == {"table", "column"}

Error(kind, lineNumber, about) ==
    [error |-> kind, lineNumber |-> lineNumber, about |-> about]

\* line.trim() === '' || line.trim().startsWith('//')
SkippedLine(line) == Trim(line) = <<>> \/ At(Trim(line), 1) = Slashes

\* /@(\w+)/g: an error for every annotation that is not known
validateAnnotations(line, lineNumber) ==
    LET unknown == SelectSeq(Positions(Len(line)), LAMBDA i :
                      line[i] = "@" /\ IsWord(At(line, i + 1))
                                    /\ At(line, i + 1) \notin knownAnnotations)
    IN [k \in 1..Len(unknown) |->
          Error("Unknown annotation", lineNumber, <<line[unknown[k] + 1]>>)]

\* /type:\s*["'](\w+)["']/ matched at position i: the position of the word
TypeWordAt(line, i) ==
    LET q == SkipSpaces(line, i + 2)
    IN IF /\ At(line, i) = "type"
          /\ At(line, i + 1) = ":"
          /\ At(line, q) \in {DQ, SQ}
          /\ IsWord(At(line, q + 1))
          /\ At(line, q + 2) \in {DQ, SQ}
       THEN q + 1 ELSE 0

\* a window of the varchar line and the five lines after it
NoLengthWithinSix(lines, lineNumber) ==
    LET last == IF lineNumber + 5 < Len(lines) THEN lineNumber + 5 ELSE Len(lines)
    IN ~\E k \in lineNumber..last : Contains(lines[k], <<"length", ":">>)
\* a window of the varchar line and the three lines after it
NoLengthWithinFour(lines, lineNumber) ==
    LET last == IF lineNumber + 3 < Len(lines) THEN lineNumber + 3 ELSE Len(lines)
    IN ~\E k \in lineNumber..last : Contains(lines[k], <<"length", ":">>)
\* the varchar line and the four lines after it hold no length:
NoLengthNearby(lines, lineNumber) ==
    LET last == IF lineNumber + 4 < Len(lines) THEN lineNumber + 4 ELSE Len(lines)
    IN ~\E k \in lineNumber..last : Contains(lines[k], <<"length", ":">>)

validateDataTypes(line, lineNumber, lines) ==
    LET bad == SelectSeq(Positions(Len(line)), LAMBDA i :
                  TypeWordAt(line, i) # 0 /\ line[TypeWordAt(line, i)] \notin validTypes)
    IN [k \in 1..Len(bad) |->
          Error("Invalid data type", lineNumber, <<line[TypeWordAt(line, bad[k])]>>)]
       \o (IF /\ Contains(line, <<"type", ":", SP, DQ, "varchar", DQ>>)
              /\ NoLengthNearby(lines, lineNumber)
           THEN <<Error("VARCHAR type requires a length specification", lineNumber, <<>>)>>
           ELSE <<>>)

\* /^\s*([a-zA-Z_][a-zA-Z0-9_]*)\s*:/: the position of the colon, or 0
KeyColon(line) ==
    LET i == SkipSpaces(line, 1)
        j == SkipSpaces(line, i + 1)
    IN IF IsIdent(At(line, i)) /\ At(line, j) = ":"
       THEN j ELSE 0
PropertyName(line) == line[SkipSpaces(line, 1)]
\* /^\s*[a-zA-Z_][a-zA-Z0-9_]*\s*:\s*\{/
OpensBlock(line) ==
    KeyColon(line) # 0 /\ At(line, SkipSpaces(line, KeyColon(line) + 1)) = "{"
\* /^\s*([a-zA-Z_][a-zA-Z0-9_]*)\s*:\s*$/
MissingValue(line) ==
    KeyColon(line) # 0 /\ SkipSpaces(line, KeyColon(line) + 1) > Len(line)
\* /^\s*\}\s*;?\s*$/
ClosesBlock(line) ==
    LET i == SkipSpaces(line, 1)
        j == SkipSpaces(line, i + 1)
    IN /\ At(line, i) = "}"
       /\ \/ j > Len(line)
          \/ At(line, j) = ";" /\ SkipSpaces(line, j + 1) > Len(line)
\* /foreign\s*:\s*\{/
ForeignOpen(line) ==
    \E i \in 1..Len(line) :
        /\ line[i] = "foreign"
        /\ At(line, SkipSpaces(line, i + 1)) = ":"
        /\ At(line, SkipSpaces(line, SkipSpaces(line, i + 1) + 1)) = "{"
\* opening minus closing braces of a line
BraceDelta(line) == CountOf(line, "{") - CountOf(line, "}")

\* the first double quote at or after position p, or 0
NextQuote(line, p) ==
    LET at == {m \in p..Len(line) : line[m] = DQ}
    IN IF at = {} THEN 0 ELSE CHOOSE m \in at : \A o \in at : m <= o
\* /^\s*type\s*:\s*"([^"]+)"/: the text between the quotes, or <<>>
QuotedTypeOf(line) ==
    LET i == SkipSpaces(line, 1)
        j == SkipSpaces(line, i + 1)
        k == SkipSpaces(line, j + 1)
        m == NextQuote(line, k + 1)
    IN IF /\ At(line, i) = "type"
          /\ At(line, j) = ":"
          /\ At(line, k) = DQ
          /\ m > k + 1
       THEN SubSeq(line, k + 1, m - 1) ELSE <<>>
RECURSIVE TypeAbove(_, _)
\* the loop of getColumnTypeForOptions, from line i upwards
TypeAbove(lines, i) ==
    IF i < 1 THEN <<"unknown">>
    ELSE IF QuotedTypeOf(lines[i]) # <<>> THEN QuotedTypeOf(lines[i])
    ELSE IF OpensBlock(lines[i]) THEN <<"unknown">>
    ELSE TypeAbove(lines, i - 1)
getColumnTypeForOptions(lines, lineNumber) == TypeAbove(lines, lineNumber - 1)

Numeric == {<<"int">>, <<"decimal">>, <<"float">>, <<"double">>}
Textual == {<<"int">>, <<"varchar">>, <<"string">>, <<"text">>}
Temporal == {<<"date">>, <<"datetime">>, <<"timestamp">>}
compatibilityRules(option) ==
    CASE option = <<"zerofill">> -> Numeric
      [] option = <<"unsigned">> -> Numeric
      [] option = <<"autoincrement">> -> {<<"int">>}
      [] option = <<"primary">> -> {<<"int">>, <<"varchar">>, <<"string">>}
      [] option = <<"not", SP, "null">> -> Numeric \cup Textual \cup Temporal \cup {<<"boolean">>}
      [] option = <<"unique">> -> Textual
      [] option = <<"index">> -> Textual \cup Temporal
      [] option = <<"required">> -> Numeric \cup Textual \cup Temporal \cup {<<"boolean">>}
isOptionCompatibleWithType(option, type) ==
    option \notin validOptions \/ type \in compatibilityRules(option)

\* \s*;?\s*$ from position p
EndsAfter(line, p) ==
    LET a == SkipSpaces(line, p)
    IN a > Len(line) \/ (line[a] = ";" /\ SkipSpaces(line, a + 1) > Len(line))
\* /^\s*options\s*:\s*\[(.*)\]\s*;?\s*$/: is the line an options list
IsOptionsLine(line) ==
    LET i == SkipSpaces(line, 1)
        j == SkipSpaces(line, i + 1)
        k == SkipSpaces(line, j + 1)
    IN /\ At(line, i) = "options"
       /\ At(line, j) = ":"
       /\ At(line, k) = "["
       /\ \E m \in (k + 1)..Len(line) : line[m] = "]" /\ EndsAfter(line, m + 1)
\* the trimmed text between the brackets (the match is greedy)
OptionsContent(line) ==
    LET k == SkipSpaces(line, SkipSpaces(line, SkipSpaces(line, 1) + 1) + 1)
        closers == {m \in (k + 1)..Len(line) : line[m] = "]" /\ EndsAfter(line, m + 1)}
        last == CHOOSE m \in closers : \A o \in closers : o <= m
    IN Trim(SubSeq(line, k + 1, last - 1))
\* /[^",\s]+(?![^"]*")/: a piece, not of quotes, commas and spaces, with no
\* double quote anywhere after it
InvalidSyntaxMatch(content) ==
    \E p \in 1..Len(content) :
        /\ content[p] \notin {DQ, ",", SP}
        /\ \A m \in (p + 1)..Len(content) : content[m] # DQ
\* /"([^"]*)"/g with the quotes removed: the quoted entries, left to right
OptionMatches(content) ==
    LET quotes == SelectSeq(Positions(Len(content)), LAMBDA p : content[p] = DQ)
    IN [k \in 1..(Len(quotes) \div 2) |->
          SubSeq(content, quotes[2 * k - 1] + 1, quotes[2 * k] - 1)]
OptionError(option, columnType, lineNumber) ==
    IF Trim(option) = <<>>
    THEN <<Error("Empty option", lineNumber, <<>>)>>
    ELSE IF option \notin validOptions
    THEN <<Error("Invalid option", lineNumber, option)>>
    ELSE IF columnType # <<"unknown">> /\ ~isOptionCompatibleWithType(option, columnType)
    THEN <<Error("Option not compatible with type", lineNumber, option)>>
    ELSE <<>>
RECURSIVE OptionErrors(_, _, _, _)
OptionErrors(options, k, columnType, lineNumber) ==
    IF k > Len(options) THEN <<>>
    ELSE OptionError(options[k], columnType, lineNumber)
         \o OptionErrors(options, k + 1, columnType, lineNumber)
validateColumnOptions(line, lineNumber, lines) ==
    IF ~IsOptionsLine(line) THEN <<>>
    ELSE IF InvalidSyntaxMatch(OptionsContent(line))
    THEN <<Error("Invalid syntax in options array", lineNumber, <<>>)>>
    ELSE OptionErrors(OptionMatches(OptionsContent(line)), 1,
                      getColumnTypeForOptions(lines, lineNumber), lineNumber)

RECURSIVE BraceSum(_, _, _)
\* the braces opened and not closed over lines i..j
BraceSum(lines, i, j) ==
    IF i > j THEN 0 ELSE BraceDelta(lines[i]) + BraceSum(lines, i + 1, j)
\* the brace count returns to zero on some line after i, up to line n
ClosedBy(lines, i, n) == \E j \in (i + 1)..n : BraceSum(lines, i, j) = 0
RECURSIVE ForeignAbove(_, _, _)
\* the loop of isInsideForeignKeyObject, from line i upwards
ForeignAbove(lines, i, n) ==
    IF i < 1 THEN FALSE
    ELSE IF ForeignOpen(lines[i])
    THEN ~ClosedBy(lines, i, n) /\ BraceSum(lines, i, n) > 0
    ELSE IF Trim(lines[i]) = <<"}">> \/ Contains(lines[i], <<"}", ";">>) THEN FALSE
    ELSE ForeignAbove(lines, i - 1, n)
isInsideForeignKeyObject(lines, lineNumber) == ForeignAbove(lines, lineNumber, lineNumber)
isInsideColumnsBlock(lines, lineNumber) ==
    LET starts == {i \in 1..Len(lines) : Contains(lines[i], <<"@", "columns">>)}
        columnsStartLine == CHOOSE i \in starts : \A o \in starts : i <= o
        ends == {j \in 1..Len(lines) : j > columnsStartLine
                                       /\ BraceSum(lines, columnsStartLine, j) = 0}
        columnsEndLine == CHOOSE j \in ends : \A o \in ends : j <= o
    IN /\ starts # {}
       /\ ends # {}
       /\ lineNumber > columnsStartLine
       /\ lineNumber < columnsEndLine
validateColumnProperties(line, lineNumber, lines) ==
    IF KeyColon(line) = 0 \/ OpensBlock(line) THEN <<>>
    ELSE IF isInsideForeignKeyObject(lines, lineNumber)
    THEN IF PropertyName(line) \notin validForeignKeyProperties
         THEN <<Error("Invalid foreign key property", lineNumber, <<PropertyName(line)>>)>>
         ELSE <<>>
    ELSE (IF /\ isInsideColumnsBlock(lines, lineNumber)
             /\ PropertyName(line) \notin validProperties
          THEN <<Error("Invalid property", lineNumber, <<PropertyName(line)>>)>>
          ELSE <<>>)
         \o (IF MissingValue(line)
             THEN <<Error("Property is missing a value", lineNumber, <<PropertyName(line)>>)>>
             ELSE <<>>)

RECURSIVE ColumnStartNearest(_, _, _)
\* the nearest line at or above i that opens a block, balanced or not
ColumnStartNearest(lines, i, n) ==
    IF i < 1 THEN 0
    ELSE IF OpensBlock(lines[i]) THEN i
    ELSE ColumnStartNearest(lines, i - 1, n)
RECURSIVE ColumnStart(_, _, _)
\* the nearest line at or above i that opens a block whose braces balance
\* with the closing line n; 0 when there is none
ColumnStart(lines, i, n) ==
    IF i < 1 THEN 0
    ELSE IF /\ OpensBlock(lines[i])
            /\ BraceSum(lines, i, n) = 0
    THEN i
    ELSE ColumnStart(lines, i - 1, n)
\* /^\s*type\s*:/
TypeKey(line) == KeyColon(line) # 0 /\ PropertyName(line) = "type"
validateRequiredColumnProperties(lines, lineNumber) ==
    LET columnStartLine == ColumnStart(lines, lineNumber - 1, lineNumber)
        columnName == PropertyName(lines[columnStartLine])
        hasType == \E i \in (columnStartLine + 1)..(lineNumber - 1) : TypeKey(lines[i])
    IN IF ~ClosesBlock(lines[lineNumber]) \/ columnStartLine = 0 THEN <<>>
       ELSE IF ~hasType /\ columnName \notin {"foreign", "defaultValue"}
       THEN <<Error("Column is missing required 'type' property", columnStartLine,
                    <<columnName>>)>>
       ELSE <<>>

\* /@(database|table)\s*\(\s*"([^"]*)"\s*\)/
StringAnnotation(line) ==
    \E i \in 1..Len(line) :
        LET p == SkipSpaces(line, i + 2)
            q == SkipSpaces(line, p + 1)
            c == NextQuote(line, q + 1)
        IN /\ line[i] = "@"
           /\ At(line, i + 1) \in {"database", "table"}
           /\ At(line, p) = "("
           /\ At(line, q) = DQ
           /\ c # 0
           /\ At(line, SkipSpaces(line, c + 1)) = ")"
\* /@meta\s*\(\s*\{/
MetaObject(line) ==
    \E i \in 1..Len(line) :
        LET p == SkipSpaces(line, i + 2)
        IN /\ line[i] = "@"
           /\ At(line, i + 1) = "meta"
           /\ At(line, p) = "("
           /\ At(line, SkipSpaces(line, p + 1)) = "{"
validateGeneralSyntax(line, lineNumber) ==
    (IF (CountOf(line, DQ) + CountOf(line, SQ)) % 2 # 0
     THEN <<Error("Mismatched quotes detected", lineNumber, <<>>)>> ELSE <<>>)
    \o (IF /\ Contains(line, <<"@", "database">>) \/ Contains(line, <<"@", "table">>)
           /\ ~StringAnnotation(line)
        THEN <<Error("Invalid annotation syntax", lineNumber, <<>>)>> ELSE <<>>)
    \o (IF Contains(line, <<"@", "meta">>) /\ ~MetaObject(line)
        THEN <<Error("Invalid @meta syntax", lineNumber, <<>>)>> ELSE <<>>)

validateOverallStructure(lines, filePath) ==
    (IF ~\E n \in 1..Len(lines) : Contains(lines[n], <<"@", "database">>)
     THEN <<Error("Missing required @database annotation", 1, <<>>)>> ELSE <<>>)
    \o (IF /\ Includes(filePath, TableSuffix)
           /\ ~\E n \in 1..Len(lines) : Contains(lines[n], <<"@", "columns">>)
        THEN <<Error("Table cube files require @columns annotation", 1, <<>>)>>
        ELSE <<>>)

\* the six checks of one line, in the order of the loop body
LineErrors(lines, lineNumber) ==
    IF SkippedLine(lines[lineNumber]) THEN <<>>
    ELSE validateAnnotations(lines[lineNumber], lineNumber)
         \o validateDataTypes(lines[lineNumber], lineNumber, lines)
         \o validateColumnOptions(lines[lineNumber], lineNumber, lines)
         \o validateColumnProperties(lines[lineNumber], lineNumber, lines)
         \o validateRequiredColumnProperties(lines, lineNumber)
         \o validateGeneralSyntax(lines[lineNumber], lineNumber)
RECURSIVE AllLineErrors(_, _)
AllLineErrors(lines, lineNumber) ==
    IF lineNumber > Len(lines) THEN <<>>
    ELSE LineErrors(lines, lineNumber) \o AllLineErrors(lines, lineNumber + 1)
\* a read failure taken for an empty file
validateUnreadableAsEmpty(file) ==
    LET errors == IF file.readable
                  THEN AllLineErrors(file.lines, 1)
                       \o validateOverallStructure(file.lines, file.path)
                  ELSE validateOverallStructure(<< <<>> >>, file.path)
    IN [returned |-> TRUE, isValid |-> Len(errors) = 0, errors |-> errors]
validateCubeFile(file) ==
    LET errors == IF file.readable
                  THEN AllLineErrors(file.lines, 1)
                       \o validateOverallStructure(file.lines, file.path)
                  ELSE <<Error("Failed to read cube file", 1, <<>>)>>
    IN [returned |-> TRUE, isValid |-> Len(errors) = 0, errors |-> errors]

\* Schema.validateDatabaseConfiguration: the first error of the cube
\* validator, else the outcome of the database directive and configuration
\* lookup (configured: the directive names a configured database)
validateDatabaseConfiguration(file, configured) ==
    LET cubeValidation == validateCubeFile(file)
    IN IF ~cubeValidation.isValid /\ Len(cubeValidation.errors) > 0
       THEN [isValid |-> FALSE, error |-> <<cubeValidation.errors[1]>>]
       ELSE IF ~configured
       THEN [isValid |-> FALSE, error |-> <<Error("Database configuration", 1, <<>>)>>]
       ELSE [isValid |-> TRUE, error |-> <<>>]

(***************************************************************************)
(* Specification of one topologicalSort call over every cube content       *)
(***************************************************************************)
\* a result never holds more than one entry per file
MaxResultLen == MaxFiles + 1

SortInit ==
    /\ AnyCube(cube, MaxRefs)
    /\ ts = SortStart(extractDependencies(cube, ScanList(cube)))
    /\ orderFile = Absent
    /\ call = NoCall
    /\ run = RunIdle
    /\ vfile = NoFile
    /\ vres = NoResult

SortBuild ==
    /\ ts.pc = "build"
    /\ ts' = SortStep(ts)
    /\ UNCHANGED <<cube, orderFile, call, run, vfile, vres>>

SortSeed ==
    /\ ts.pc = "seed"
    /\ ts' = SortStep(ts)
    /\ UNCHANGED <<cube, orderFile, call, run, vfile, vres>>

SortDequeue ==
    /\ ts.pc = "kahn"
    /\ ts.queue # <<>>
    /\ Len(ts.result) < MaxResultLen
    /\ ts' = SortStep(ts)
    /\ UNCHANGED <<cube, orderFile, call, run, vfile, vres>>

SortLoopExit ==
    /\ ts.pc = "kahn"
    /\ ts.queue = <<>>
    /\ ts' = SortStep(ts)
    /\ UNCHANGED <<cube, orderFile, call, run, vfile, vres>>

SortFallback ==
    /\ ts.pc = "fallback"
    /\ ts' = SortStep(ts)
    /\ UNCHANGED <<cube, orderFile, call, run, vfile, vres>>

SortNext == SortBuild \/ SortSeed \/ SortDequeue \/ SortLoopExit \/ SortFallback

SortSpec == SortInit /\ [][SortNext]_vars
FairSortSpec == SortInit /\ [][SortNext]_vars /\ WF_vars(SortNext)

(***************************************************************************)
(* Specification of the resolver's public calls, one at a time (the code   *)
(* is synchronous).  The cube files are any content; between calls the     *)
(* order file can be removed or damaged.                                   *)
(***************************************************************************)
RECURSIVE Ascending(_)
\* the members of a set of files, in scan order
Ascending(S) ==
    IF S = {} THEN <<>>
    ELSE LET m == CHOOSE x \in S : \A y \in S : y <= x
         IN Append(Ascending(S \ {m}), m)
\* the file lists a caller passes: any files of the scan list, in scan order
FileLists(c) == {Ascending(S) : S \in SUBSET (1..Len(c))}

SortIdle == SortStart(<<>>)

Init ==
    /\ AnyCube(cube, MaxCallRefs)
    /\ ts = SortIdle
    /\ orderFile = Absent
    /\ call = NoCall
    /\ run = RunIdle
    /\ vfile = NoFile
    /\ vres = NoResult

\* DependencyResolver.resolveDependencies(cubeFiles, cubeType)
ResolveCall ==
    /\ call = NoCall
    /\ \E cubeFiles \in FileLists(cube), cubeType \in CubeTypes :
        LET executionOrder == resolveDependencies(cube, cubeFiles, cubeType)
        IN /\ orderFile' = saveExecutionOrder(executionOrder)
           /\ call' = [op |-> "resolve", files |-> cubeFiles, cubeType |-> cubeType,
                       ret |-> executionOrder,
                       replaced |-> (orderFile # Absent /\ orderFile # orderFile')]
    /\ UNCHANGED <<cube, ts, run, vfile, vres>>

\* DependencyResolver.orderCubeFiles(cubeFiles, cubeType)
OrderCall ==
    /\ call = NoCall
    /\ \E cubeFiles \in FileLists(cube), cubeType \in CubeTypes :
        call' = [op |-> "order", files |-> cubeFiles, cubeType |-> cubeType,
                 ret |-> orderCubeFiles(cube, orderFile, cubeFiles, cubeType)]
    /\ UNCHANGED <<cube, ts, orderFile, run, vfile, vres>>

\* DependencyResolver.loadExecutionOrder()
LoadCall ==
    /\ call = NoCall
    /\ call' = [op |-> "load", ret |-> loadExecutionOrder(orderFile)]
    /\ UNCHANGED <<cube, ts, orderFile, run, vfile, vres>>

\* the user deletes .dbcube/orderexecute.json
RemoveOrderFile ==
    /\ call = NoCall
    /\ orderFile # Absent
    /\ orderFile' = Absent
    /\ UNCHANGED <<cube, ts, call, run, vfile, vres>>

\* the file is cut short, edited by hand or loses its read permission
DamageOrderFile ==
    /\ call = NoCall
    /\ orderFile' \in (GarbageTexts \cup {Unreadable}) \ {orderFile}
    /\ UNCHANGED <<cube, ts, call, run, vfile, vres>>

\* the call returns to its caller
Return ==
    /\ call # NoCall
    /\ call' = NoCall
    /\ UNCHANGED <<cube, ts, orderFile, run, vfile, vres>>

Next ==
    ResolveCall \/ OrderCall \/ LoadCall \/ Return \/ RemoveOrderFile \/ DamageOrderFile

Spec == Init /\ [][Next]_vars

(***************************************************************************)
(* Cube file texts: lines a file is put together from                      *)
(***************************************************************************)
DatabaseLine == <<"@", "database", "(", DQ, "main", DQ, ")", ";">>
DatabaseBare == <<"@", "database", "(", "main", ")", ";">>
UnknownAnnotationLine == <<"@", "foo", "(", DQ, "x", DQ, ")", ";">>
MetaOpenLine == <<"@", "meta", "(", "{">>
NameLine == <<SP, "name", ":", SP, DQ, "users", DQ, ";">>
WrapperCloseLine == <<"}", ")", ";">>
ColumnsOpenLine == <<"@", "columns", "(", "{">>
ColumnOpenLine == <<SP, "id", ":", SP, "{">>
ColumnCloseLine == <<SP, "}", ";">>
TypeLine(type) == <<SP, SP, "type", ":", SP, DQ, type, DQ, ";">>
TypeMissingLine == <<SP, SP, "type", ":">>
TypeUnbalancedLine == <<SP, SP, "type", ":", SP, DQ, "int", ";">>
TypeCommentedLine == <<SP, SP, Slashes, SP, "type", ":", SP, DQ, "varchar", DQ, ";">>
LengthLine == <<SP, SP, "length", ":", SP, DQ, "255", DQ, ";">>
SizeLine == <<SP, SP, "size", ":", SP, DQ, "255", DQ, ";">>
ForeignOpenLine == <<SP, SP, "foreign", ":", SP, "{">>
ForeignCloseLine == <<SP, SP, "}", ";">>
ForeignProperty(name) == <<SP, SP, SP, name, ":", SP, DQ, "users", DQ, ";">>
ForeignValuelessLine == <<SP, SP, SP, "table", ":">>
DefaultValueOpenLine == <<SP, SP, "defaultValue", ":", SP, "{">>
OptionsLine(entries) == <<SP, SP, "options", ":", SP, "[">> \o entries \o <<"]", ";">>
BlankLines(g) == [i \in 1..g |-> <<>>]

DatabaseChoices == {<<>>, <<DatabaseLine>>, <<DatabaseBare>>}
AnnotationChoices ==
    {<<>>, <<UnknownAnnotationLine>>, <<MetaOpenLine, NameLine, WrapperCloseLine>>}
TypeChoices ==
    {<<>>, <<TypeLine("int")>>, <<TypeLine("varchar")>>, <<TypeLine("blob")>>,
     <<TypeMissingLine>>, <<TypeUnbalancedLine>>, <<TypeCommentedLine>>}
LengthChoices == {<<>>} \cup {BlankLines(g) \o <<LengthLine>> : g \in 0..MaxGap}
PropertyChoices == {<<>>, <<SizeLine>>}
ForeignChoices ==
    {<<>>,
     <<ForeignOpenLine, ForeignProperty("table"), ForeignProperty("column"), ForeignCloseLine>>,
     <<ForeignOpenLine, ForeignProperty("key"), ForeignCloseLine>>,
     <<ForeignOpenLine, ForeignValuelessLine, ForeignCloseLine>>,
     <<DefaultValueOpenLine, ForeignProperty("value"), ForeignCloseLine>>}
OptionEntries ==
    {<<DQ, "primary", DQ>>, <<DQ, "unsigned", DQ>>, <<DQ, "bogus", DQ>>, <<"primary">>,
     <<DQ, DQ>>, <<DQ, "primary", DQ, ",", SP, DQ, "not", SP, "null", DQ>>,
     <<"primary", ",", SP, DQ, "unique", DQ>>, <<SQ, "primary", SQ>>}
OptionsChoices == {<<>>} \cup {<<OptionsLine(e)>> : e \in OptionEntries}
ColumnBlocks ==
    {<<>>} \cup
    {<<ColumnOpenLine>> \o t \o l \o p \o f \o o \o <<ColumnCloseLine>> :
        t \in TypeChoices, l \in LengthChoices, p \in PropertyChoices,
        f \in ForeignChoices, o \in OptionsChoices}
\* content.split('\n') of an empty file is one empty line
SplitLines(lines) == IF lines = <<>> THEN << <<>> >> ELSE lines
\* the paths of a table file, of a seeder file, and of a seeder file in a
\* directory whose name holds the table suffix
TablePath == <<"dbcube", "/", "users", TableSuffix>>
SeederPath == <<"dbcube", "/", "users", SeederSuffix>>
NestedSeederPath == <<"dbcube", "/", "old", TableSuffix, "/", "users", SeederSuffix>>
CubeFile(db, anno, wrapped, block, filePath) ==
    [readable |-> TRUE, path |-> filePath,
     lines |-> SplitLines(db \o anno \o (IF wrapped
                                         THEN <<ColumnsOpenLine>> \o block \o <<WrapperCloseLine>>
                                         ELSE block))]
UnreadableFile(filePath) == [readable |-> FALSE, path |-> filePath, lines |-> <<>>]

\* the texts a run reads: a valid file, a file that cannot be read, a file
\* without its @database line
RunFiles ==
    {CubeFile(<<DatabaseLine>>, <<>>, TRUE, <<>>, TablePath),
     UnreadableFile(TablePath),
     CubeFile(<<>>, <<>>, TRUE, <<>>, TablePath)}

(***************************************************************************)
(* Schema.refreshTables and Schema.freshTables                             *)
(***************************************************************************)
\* const file = orderedCubeFiles[index] and its table name
CurrentFile(r) == r.ordered[r.index]
CurrentTable(c, r) == TableNameOf(c, CurrentFile(r))
\* Schema.extractForeignKeyDependencies: the same scan as the resolver's
extractForeignKeyDependencies(c, f) == c[f].deps

\* continue / end of the loop body: the next file, or the summary
NextFile(r) ==
    [r EXCEPT !.index = r.index + 1,
              !.pc = IF r.index + 1 > Len(r.ordered) THEN "done" ELSE "validate"]

\* the start of a run: resolve, reorder, empty counters
StartRun(c, file, mode) ==
    [RunIdle EXCEPT !.mode = mode, !.pc = "validate", !.index = 1,
                    !.ordered = orderCubeFiles(c, file, ScanList(c), "table")]

\* a validation failure without its continue: the loop body goes on
ValidationFailureGoesOn(c, r) ==
    [r EXCEPT
        !.pc = "depcheck",
        !.errors = Append(r.errors, [itemName |-> CurrentTable(c, r),
                                     file |-> CurrentFile(r),
                                     kind |-> "validation", missing |-> <<>>]),
        !.failedTables = r.failedTables \cup {CurrentTable(c, r)}]
\* validation failed: record the validator's error, fail the table, continue
ValidationFailure(c, r) ==
    NextFile([r EXCEPT
        !.errors = Append(r.errors, [itemName |-> CurrentTable(c, r),
                                     file |-> CurrentFile(r),
                                     kind |-> "validation", missing |-> <<>>]),
        !.failedTables = r.failedTables \cup {CurrentTable(c, r)}])

\* dependencies.filter(dep => failedTables.has(dep))
MissingDependencies(dependencies, failedTables) ==
    SelectSeq(dependencies, LAMBDA dep : dep \in failedTables)

\* a skip that records the error and forgets to fail the table
SkipWithoutFailing(c, r, missingDependencies) ==
    NextFile([r EXCEPT
        !.errors = Append(r.errors, [itemName |-> CurrentTable(c, r),
                                     file |-> CurrentFile(r),
                                     kind |-> "dependency",
                                     missing |-> missingDependencies])])
\* "depends on failed table(s)": record the error, fail the table, continue
SkipForDependency(c, r, missingDependencies) ==
    NextFile([r EXCEPT
        !.errors = Append(r.errors, [itemName |-> CurrentTable(c, r),
                                     file |-> CurrentFile(r),
                                     kind |-> "dependency",
                                     missing |-> missingDependencies]),
        !.failedTables = r.failedTables \cup {CurrentTable(c, r)}])

\* a catch block that records the error and leaves the failed set alone
CatchWithoutFailing(c, r) ==
    NextFile([r EXCEPT
        !.errors = Append(r.errors, [itemName |-> CurrentTable(c, r),
                                     file |-> CurrentFile(r),
                                     kind |-> "exception", missing |-> <<>>])])
\* the catch block: record error.message, fail the table, go on with the loop
CatchError(c, r) ==
    NextFile([r EXCEPT
        !.errors = Append(r.errors, [itemName |-> CurrentTable(c, r),
                                     file |-> CurrentFile(r),
                                     kind |-> "exception", missing |-> <<>>]),
        !.failedTables = r.failedTables \cup {CurrentTable(c, r)}])

\* an engine call whose bad status is reported and the loop goes on with the
\* next file
EngineRunGoesOn(c, r, outcome, nextPc) ==
    LET called == [r EXCEPT !.engineLog = r.engineLog \cup {CurrentFile(r)}]
    IN CASE outcome = "ok" -> [called EXCEPT !.pc = nextPc]
         [] outcome = "status" -> NextFile([called EXCEPT !.status = 500])
         [] OTHER -> CatchError(c, called)
\* one await this.engine.run(...): its outcome sends the run on, ends the
\* process (a status other than 200 goes to returnFormattedError, which calls
\* process.exit) or lands in the catch
EngineRun(c, r, outcome, nextPc) ==
    LET called == [r EXCEPT !.engineLog = r.engineLog \cup {CurrentFile(r)}]
    IN CASE outcome = "ok" -> [called EXCEPT !.pc = nextPc]
         [] outcome = "status" -> [called EXCEPT !.pc = "exited", !.status = 500]
         [] OTHER -> CatchError(c, called)
EngineOutcomes == {"ok", "status", "throws"}

\* showItemSuccess and the counters of a table that went through
TableDone(c, r) ==
    NextFile([r EXCEPT !.processedTables = Append(r.processedTables, CurrentTable(c, r))])

(***************************************************************************)
(* Specification of one refreshTables / freshTables run                    *)
(***************************************************************************)
RunInit ==
    /\ AnyCube(cube, MaxRunRefs)
    /\ ts = SortIdle
    /\ orderFile = Absent
    /\ call = NoCall
    /\ run = RunIdle
    /\ vfile = NoFile
    /\ vres = NoResult

\* lines 261-289 and 405-433
RunStart ==
    /\ run.pc = "idle"
    /\ Len(cube) > 0
    /\ orderFile' = saveExecutionOrder(resolveDependencies(cube, ScanList(cube), "table"))
    /\ \E mode \in RunModes : run' = StartRun(cube, orderFile', mode)
    /\ UNCHANGED <<cube, ts, call, vfile, vres>>

\* fs.statSync(filePath), outside the try block: a missing file ends the run
StatFailure(r) == [r EXCEPT !.pc = "aborted"]

\* fs.statSync, then this.validateDatabaseConfiguration(filePath): the text
\* read is one of the files of RunFiles
RunValidate ==
    /\ run.pc = "validate"
    /\ \/ /\ run' = StatFailure(run)
          /\ UNCHANGED <<vfile, vres>>
       \/ \E file \in RunFiles, configured \in BOOLEAN :
             LET validation == validateDatabaseConfiguration(file, configured)
             IN /\ vfile' = file
                /\ vres' = validateCubeFile(file)
                /\ run' = IF ~validation.isValid /\ Len(validation.error) > 0
                          THEN ValidationFailure(cube, run)
                          ELSE [run EXCEPT !.pc = "depcheck"]
    /\ UNCHANGED <<cube, ts, orderFile, call>>

\* the failed-dependency check
RunDependencyCheck ==
    /\ run.pc = "depcheck"
    /\ LET dependencies == extractForeignKeyDependencies(cube, CurrentFile(run))
           missingDependencies == MissingDependencies(dependencies, run.failedTables)
       IN run' = IF Len(missingDependencies) > 0
                 THEN SkipForDependency(cube, run, missingDependencies)
                 ELSE [run EXCEPT !.pc = "parse"]
    /\ UNCHANGED <<cube, ts, orderFile, call, vfile, vres>>

\* engine.run('schema_engine', ['--action', 'parse_table', ...])
RunParse ==
    /\ run.pc = "parse"
    /\ \E outcome \in EngineOutcomes : run' = EngineRun(cube, run, outcome, "generate")
    /\ UNCHANGED <<cube, ts, orderFile, call, vfile, vres>>

\* engine.run('schema_engine', ['--action', 'generate', ...])
RunGenerate ==
    /\ run.pc = "generate"
    /\ \E outcome \in EngineOutcomes : run' = EngineRun(cube, run, outcome, "execute")
    /\ UNCHANGED <<cube, ts, orderFile, call, vfile, vres>>

\* engine.run('schema_engine', ['--action', 'execute', ...])
RunExecute ==
    /\ run.pc = "execute"
    /\ \E outcome \in EngineOutcomes : run' = EngineRun(cube, run, outcome, "save")
    /\ UNCHANGED <<cube, ts, orderFile, call, vfile, vres>>

\* TableProcessor.saveQuery, then the success counters
RunSaveQuery ==
    /\ run.pc = "save"
    /\ \E outcome \in {"ok", "throws"} :
         run' = IF outcome = "ok" THEN TableDone(cube, run) ELSE CatchError(cube, run)
    /\ UNCHANGED <<cube, ts, orderFile, call, vfile, vres>>

RunNext ==
    \/ RunStart \/ RunValidate \/ RunDependencyCheck
    \/ RunParse \/ RunGenerate \/ RunExecute \/ RunSaveQuery

RunSpec == RunInit /\ [][RunNext]_vars

(***************************************************************************)
(* Specification of one validateCubeFile call.  The file is put together   *)
(* from line choices: a @database line, another annotation, the @columns   *)
(* wrapper, and one column block with a type, a length, one more property, *)
(* a foreign object and an options list, each present or not.              *)
(***************************************************************************)
ValidateInit ==
    /\ cube = <<>>
    /\ ts = SortIdle
    /\ orderFile = Absent
    /\ call = NoCall
    /\ run = RunIdle
    /\ vres = NoResult
    /\ \/ \E filePath \in {TablePath, SeederPath} :
             \/ vfile = UnreadableFile(filePath)
             \/ \E db \in DatabaseChoices, anno \in AnnotationChoices,
                   wrapped \in BOOLEAN, block \in ColumnBlocks :
                   vfile = CubeFile(db, anno, wrapped, block, filePath)
       \/ \E db \in DatabaseChoices, anno \in AnnotationChoices, wrapped \in BOOLEAN :
             vfile = CubeFile(db, anno, wrapped, <<>>, NestedSeederPath)

Validate ==
    /\ ~vres.returned
    /\ vres' = validateCubeFile(vfile)
    /\ UNCHANGED <<cube, ts, orderFile, call, run, vfile>>

ValidateNext == Validate
ValidateSpec == ValidateInit /\ [][ValidateNext]_vars

(***************************************************************************)
(* The scans for foreign key references: DependencyResolver and Schema     *)
(* each carry their own copy of the loop over the lines of a cube file.    *)
(***************************************************************************)
\* the first quote of either kind at or after position p, or 0
NextAnyQuote(line, p) ==
    LET at == {m \in p..Len(line) : line[m] \in {DQ, SQ}}
    IN IF at = {} THEN 0 ELSE CHOOSE m \in at : \A o \in at : m <= o
\* /table\s*:\s*["']([^"']+)["']/ matched at position i: the text between
\* the quotes, or <<>>
TableAssignedAt(line, i) ==
    LET j == SkipSpaces(line, i + 1)
        k == SkipSpaces(line, j + 1)
        m == NextAnyQuote(line, k + 1)
    IN IF /\ line[i] = "table"
          /\ At(line, j) = ":"
          /\ At(line, k) \in {DQ, SQ}
          /\ m > k + 1
       THEN SubSeq(line, k + 1, m - 1) ELSE <<>>
\* line.match(...)[1]: the name of the leftmost match, or <<>>
TableAssigned(line) ==
    LET at == {i \in 1..Len(line) : TableAssignedAt(line, i) # <<>>}
    IN IF at = {} THEN <<>>
       ELSE TableAssignedAt(line, CHOOSE i \in at : \A o \in at : i <= o)

\* the locals before the loop
ScanStart == [dependencies |-> <<>>, insideForeignKey |-> FALSE, braceCount |-> 0]

\* the loop body of DependencyResolver.extractForeignKeyReferences
ReferenceScanLine(s, line) ==
    IF ForeignOpen(line)
    THEN IF TableAssigned(line) # <<>>
         THEN [dependencies |-> Append(s.dependencies, TableAssigned(line)),
               insideForeignKey |-> FALSE, braceCount |-> 0]
         ELSE [s EXCEPT !.insideForeignKey = TRUE, !.braceCount = 1]
    ELSE IF s.insideForeignKey
    THEN LET braceCount == s.braceCount + BraceDelta(line)
         IN [dependencies |-> IF TableAssigned(line) # <<>>
                              THEN Append(s.dependencies, TableAssigned(line))
                              ELSE s.dependencies,
             insideForeignKey |-> braceCount # 0,
             braceCount |-> braceCount]
    ELSE s
RECURSIVE ReferenceScan(_, _, _)
ReferenceScan(lines, i, s) ==
    IF i > Len(lines) THEN s.dependencies
    ELSE ReferenceScan(lines, i + 1, ReferenceScanLine(s, lines[i]))
\* DependencyResolver.extractForeignKeyReferences over the text of a file: a
\* read failure is caught and the empty list returned
extractForeignKeyReferencesOf(file) ==
    IF ~file.readable THEN <<>> ELSE ReferenceScan(file.lines, 1, ScanStart)

\* a loop body that stays in the foreign object after a same-line match
DependencyScanLineStaysInside(s, line) ==
    IF ForeignOpen(line)
    THEN [dependencies |-> IF TableAssigned(line) # <<>>
                           THEN Append(s.dependencies, TableAssigned(line))
                           ELSE s.dependencies,
          insideForeignKey |-> TRUE, braceCount |-> 1]
    ELSE IF s.insideForeignKey
    THEN LET braceCount == s.braceCount + BraceDelta(line)
         IN [dependencies |-> IF TableAssigned(line) # <<>>
                              THEN Append(s.dependencies, TableAssigned(line))
                              ELSE s.dependencies,
             insideForeignKey |-> braceCount # 0,
             braceCount |-> braceCount]
    ELSE s
\* the loop body of Schema.extractForeignKeyDependencies
DependencyScanLine(s, line) ==
    IF ForeignOpen(line)
    THEN IF TableAssigned(line) # <<>>
         THEN [dependencies |-> Append(s.dependencies, TableAssigned(line)),
               insideForeignKey |-> FALSE, braceCount |-> 0]
         ELSE [s EXCEPT !.insideForeignKey = TRUE, !.braceCount = 1]
    ELSE IF s.insideForeignKey
    THEN LET braceCount == s.braceCount + BraceDelta(line)
         IN [dependencies |-> IF TableAssigned(line) # <<>>
                              THEN Append(s.dependencies, TableAssigned(line))
                              ELSE s.dependencies,
             insideForeignKey |-> braceCount # 0,
             braceCount |-> braceCount]
    ELSE s
RECURSIVE DependencyScan(_, _, _)
DependencyScan(lines, i, s) ==
    IF i > Len(lines) THEN s.dependencies
    ELSE DependencyScan(lines, i + 1, DependencyScanLine(s, lines[i]))
\* Schema.extractForeignKeyDependencies over the text of a file
extractForeignKeyDependenciesOf(file) ==
    IF ~file.readable THEN <<>> ELSE DependencyScan(file.lines, 1, ScanStart)

(***************************************************************************)
(* Specification of one scan of each kind over a file of up to MaxLines    *)
(* lines, each line one of ScanLines                                       *)
(***************************************************************************)
TableLine(quote, name) == <<SP, SP, SP, "table", ":", SP, quote, name, quote, ";">>
ForeignInlineLine ==
    <<SP, SP, "foreign", ":", SP, "{", SP, "table", ":", SP, DQ, "A", DQ, ",", SP,
      "column", ":", SP, DQ, "id", DQ, SP, "}", ";">>
ForeignInlineBareLine ==
    <<SP, SP, "foreign", ":", SP, "{", SP, "column", ":", SP, DQ, "id", DQ, SP, "}", ";">>
ScanLines ==
    {ForeignOpenLine, ForeignInlineLine, ForeignInlineBareLine, TableLine(DQ, "B"),
     TableLine(SQ, "C"), ForeignProperty("column"), ForeignCloseLine, ColumnOpenLine}
ScanFiles ==
    {UnreadableFile(TablePath), CubeFile(<<>>, <<>>, FALSE, <<>>, TablePath)}
      \cup {CubeFile(<<>>, <<>>, FALSE, lines, TablePath) :
               lines \in UNION {SeqOfLen(ScanLines, n) : n \in 1..MaxLines}}

ScanInit ==
    /\ cube = <<>>
    /\ ts = SortIdle
    /\ orderFile = Absent
    /\ call = NoCall
    /\ run = RunIdle
    /\ vres = NoResult
    /\ vfile \in ScanFiles

\* DependencyResolver.extractForeignKeyReferences(filePath)
ScanReferences ==
    /\ call = NoCall
    /\ call' = [op |-> "references", ret |-> extractForeignKeyReferencesOf(vfile)]
    /\ UNCHANGED <<cube, ts, orderFile, run, vfile, vres>>

\* Schema.extractForeignKeyDependencies(filePath)
ScanDependencies ==
    /\ call = NoCall
    /\ call' = [op |-> "dependencies", ret |-> extractForeignKeyDependenciesOf(vfile)]
    /\ UNCHANGED <<cube, ts, orderFile, run, vfile, vres>>

ScanNext == ScanReferences \/ ScanDependencies
ScanSpec == ScanInit /\ [][ScanNext]_vars

(***************************************************************************)
(* Claims about topologicalSort                                            *)
(***************************************************************************)
SortDone == ts.pc = "done"
SortNames == Range(NamesOf(ts.dependencies))
UniqueNames(dependencies) == NoDup(NamesOf(dependencies))
\* t references the known table r through a foreign block
References(dependencies, t, r) ==
    \E i \in 1..Len(dependencies) :
        /\ dependencies[i].tableName = t
        /\ Includes(dependencies[i].dependencies, r)
        /\ r \in Range(NamesOf(dependencies))
RECURSIVE ReachIn(_, _, _, _)
\* r is reached from t in at most n references
ReachIn(dependencies, t, r, n) ==
    IF n = 0 THEN FALSE
    ELSE \/ References(dependencies, t, r)
         \/ \E m \in Range(NamesOf(dependencies)) :
                References(dependencies, t, m) /\ ReachIn(dependencies, m, r, n - 1)
Acyclic(dependencies) ==
    \A t \in Range(NamesOf(dependencies)) :
        ~ReachIn(dependencies, t, t, Len(dependencies))
Before(s, x, y) == IndexOf(s, x) # 0 /\ IndexOf(s, y) # 0 /\ IndexOf(s, x) < IndexOf(s, y)

\* C1: for acyclic cube files with unique table names the returned order
\* places every table after each known table it references.
C1_DependenciesFirst ==
    (SortDone /\ UniqueNames(ts.dependencies) /\ Acyclic(ts.dependencies)) =>
        \A t, r \in SortNames :
            References(ts.dependencies, t, r) => Before(ts.result, r, t)

\* C2: the returned list holds every table name of the input exactly once
\* and no other name.
C2_EachNameOnce ==
    SortDone => (NoDup(ts.result) /\ Range(ts.result) = SortNames)
\* a finished sort of a 2-cycle, and one of a file referencing itself
C2_Witness ==
    /\ SortDone
    /\ \E t, r \in SortNames :
          t # r /\ References(ts.dependencies, t, r) /\ References(ts.dependencies, r, t)
    /\ Len(ts.result) = 2

\* C3: every topologicalSort call returns: the queue loop empties and the
\* function reaches its return statement.
C3_Terminates == <>SortDone
\* a returned sort whose input holds a cycle through three tables
C3_Witness ==
    /\ SortDone
    /\ UniqueNames(ts.dependencies)
    /\ Len(ts.dependencies) = 3
    /\ \A t \in SortNames : ReachIn(ts.dependencies, t, t, 3) /\ ~References(ts.dependencies, t, t)

(***************************************************************************)
(* Claims about the persisted order and orderCubeFiles                     *)
(***************************************************************************)
Ordered == call.op = "order"
StoredOrder == loadExecutionOrder(orderFile)
CallNames == [i \in 1..Len(call.files) |-> TableNameOf(cube, call.files[i])]
\* the order file is absent, unreadable or holds no parsable text
NoStoredOrder == orderFile = Absent \/ orderFile = Unreadable \/ orderFile \in GarbageTexts
\* the files of list whose table name satisfies Test, in the order of list
FilesWhere(list, Test(_)) == SelectSeq(list, LAMBDA f : Test(TableNameOf(cube, f)))
RECURSIVE FilesByStoredOrder(_, _)
\* for each stored name in turn, the files of list that carry it
FilesByStoredOrder(stored, list) ==
    IF stored = <<>> THEN <<>>
    ELSE FilesWhere(list, LAMBDA n : n = Head(stored))
            \o FilesByStoredOrder(Tail(stored), list)

\* C5: ordering an already ordered list again, with the same stored order,
\* returns the identical sequence.
C5_Idempotent ==
    Ordered => orderCubeFiles(cube, orderFile, call.ret, call.cubeType) = call.ret
\* an ordering call that moved a file and left two files after the stored ones
C5_Witness ==
    /\ Ordered
    /\ StoredOrder # Null
    /\ call.ret # call.files
    /\ Cardinality({i \in 1..Len(call.files) :
                      ~Includes(StoredOrder.tables, CallNames[i])}) >= 2

\* C6 as claimed: the returned list is a permutation of the input list, also
\* when several input files resolve to the same table name.
C6_Permutation ==
    Ordered => (Len(call.ret) = Len(call.files) /\ Range(call.ret) = Range(call.files))
\* C6: the returned list holds no file twice and holds exactly, for every
\* table name of the input, the last input file of that name; for pairwise
\* distinct names it is a permutation of the input.
C6_LastFilePerName ==
    Ordered =>
        /\ NoStoredOrder => call.ret = call.files
        /\ ~NoStoredOrder =>
            /\ NoDup(call.ret)
            /\ Range(call.ret) =
                 {call.files[i] : i \in {k \in 1..Len(call.files) :
                     \A j \in (k + 1)..Len(call.files) : CallNames[j] # CallNames[k]}}
        /\ NoDup(CallNames) =>
             (Len(call.ret) = Len(call.files) /\ Range(call.ret) = Range(call.files))
\* an ordering call, under a stored order, of three files of distinct names of
\* which one misses in the stored order
C6_Witness ==
    /\ Ordered
    /\ StoredOrder # Null
    /\ Len(call.files) = 3
    /\ NoDup(CallNames)
    /\ \E i \in 1..3 : ~Includes(StoredOrder.tables, CallNames[i])
    /\ \E i \in 1..3 : Includes(StoredOrder.tables, CallNames[i])

\* C7 as claimed: under a stored order the result is the files of the stored
\* names, in stored order, then the other files in input order.
C7_StoredThenRest ==
    (Ordered /\ StoredOrder # Null) =>
        call.ret = FilesByStoredOrder(StoredOrder.tables, call.files)
                     \o FilesWhere(call.files, LAMBDA n : ~Includes(StoredOrder.tables, n))
\* C7: the same, for input files of pairwise distinct table names.
C7_StoredThenRestDistinct ==
    (Ordered /\ StoredOrder # Null /\ NoDup(CallNames)) =>
        call.ret = FilesByStoredOrder(StoredOrder.tables, call.files)
                     \o FilesWhere(call.files, LAMBDA n : ~Includes(StoredOrder.tables, n))
\* an ordering call that put a stored file in front of two earlier files
C7_Witness ==
    /\ Ordered
    /\ StoredOrder # Null
    /\ NoDup(CallNames)
    /\ call.files = <<1, 2, 3>>
    /\ call.ret = <<3, 1, 2>>

\* C8: with the order file absent, unreadable or unparsable, the load returns
\* null and orderCubeFiles returns its input list unchanged.
C8_FallbackToInput ==
    NoStoredOrder =>
        /\ call.op = "load" => call.ret = Null
        /\ Ordered => call.ret = call.files
\* an ordering call of two files or more over a damaged order file
C8_Witness ==
    /\ Ordered
    /\ orderFile \in GarbageTexts
    /\ Len(call.files) >= 2
    /\ call.ret = call.files

StoredPlace(f) == IndexOf(StoredOrder.tables, TableNameOf(cube, f))
\* the seeders lists an order file can hold next to the same tables list
SeederLists == UNION {SeqOfLen(Tables, n) : n \in 0..2}

\* C21: under a stored order, for both categories, the returned files whose
\* table name is in the stored tables list come first, in the order of that
\* list, and the same list is returned whatever the stored seeders list holds.
C21_TablesListOnly ==
    (Ordered /\ StoredOrder # Null) =>
        /\ \A i, j \in 1..Len(call.ret) :
              (i < j /\ StoredPlace(call.ret[j]) # 0) =>
                 /\ StoredPlace(call.ret[i]) # 0
                 /\ StoredPlace(call.ret[i]) < StoredPlace(call.ret[j])
        /\ \A s \in SeederLists :
              orderCubeFiles(cube,
                  saveExecutionOrder([tables |-> StoredOrder.tables, seeders |-> s]),
                  call.files, call.cubeType) = call.ret
\* seeder files put in another order by a stored tables list
C21_Witness ==
    /\ Ordered
    /\ call.cubeType = "seeder"
    /\ StoredOrder # Null
    /\ StoredOrder.seeders = <<>>
    /\ Len(StoredOrder.tables) >= 2
    /\ call.ret # call.files
    /\ \A i \in 1..Len(call.ret) : StoredPlace(call.ret[i]) # 0

\* the table names of a file list
FileNames(list) == [i \in 1..Len(list) |-> TableNameOf(cube, list[i])]

LastError(r) == r.errors[Len(r.errors)]
\* the dependency check of the current file finds a failed table among the
\* file's extracted dependencies
FailedDependencyFound ==
    /\ run.pc = "depcheck"
    /\ \E dep \in Range(extractForeignKeyDependencies(cube, CurrentFile(run))) :
          dep \in run.failedTables
\* the step that follows: a "depends on failed table(s)" error naming the
\* failed dependencies, the table failed, no engine call
SkippedForDependency ==
    /\ Len(run'.errors) = Len(run.errors) + 1
    /\ LastError(run').kind = "dependency"
    /\ LastError(run').file = CurrentFile(run)
    /\ LastError(run').itemName = CurrentTable(cube, run)
    /\ Range(LastError(run').missing) =
          Range(extractForeignKeyDependencies(cube, CurrentFile(run))) \cap run.failedTables
    /\ CurrentTable(cube, run) \in run'.failedTables
    /\ run'.engineLog = run.engineLog
    /\ run'.pc \in {"validate", "done"}
    /\ run'.index = run.index + 1
\* no file with a dependency error was ever handed to the engine
SkippedNeverRun ==
    \A i \in 1..Len(run.errors) :
        run.errors[i].kind = "dependency" => run.errors[i].file \notin run.engineLog

\* C4: a file whose extracted dependencies include an already failed table
\* is skipped with a dependency error naming it, its table joins the failed
\* set, and the engine is never invoked for the file.
C4_SkipOnFailedDependency ==
    [][FailedDependencyFound => SkippedForDependency]_vars /\ []SkippedNeverRun
\* a finished run that created one table, failed one and skipped a third
C4_Witness ==
    /\ run.pc = "done"
    /\ Len(run.processedTables) = 1
    /\ Len(run.errors) = 2
    /\ run.errors[1].kind # "dependency"
    /\ run.errors[2].kind = "dependency"
    /\ run.errors[2].missing = <<run.errors[1].itemName>>
    /\ run.errors[2].file \notin run.engineLog

(***************************************************************************)
(* Claims about validateCubeFile                                           *)
(***************************************************************************)
\* the lines the loop of validateCubeFile looks at
Checked(lines) == {n \in 1..Len(lines) : ~SkippedLine(lines[n])}
OnlyKnownAnnotations(lines) ==
    \A n \in 1..Len(lines) : \A i \in 1..Len(lines[n]) :
        lines[n][i] = "@" /\ IsWord(At(lines[n], i + 1))
            => At(lines[n], i + 1) \in knownAnnotations
OnlyValidTypes(lines) ==
    \A n \in 1..Len(lines) : \A i \in 1..Len(lines[n]) :
        TypeWordAt(lines[n], i) # 0 => lines[n][TypeWordAt(lines[n], i)] \in validTypes
OnlyValidOptions(lines) ==
    \A n \in 1..Len(lines) :
        IsOptionsLine(lines[n])
            => \A option \in Range(OptionMatches(OptionsContent(lines[n]))) :
                   option \in validOptions
HasDatabaseAnnotation(lines) ==
    \E n \in 1..Len(lines) : Contains(lines[n], <<"@", "database">>)
Whitelisted(file) ==
    /\ file.readable
    /\ OnlyKnownAnnotations(file.lines)
    /\ OnlyValidTypes(file.lines)
    /\ OnlyValidOptions(file.lines)
    /\ HasDatabaseAnnotation(file.lines)

\* the other rules of the validator, stated on the file
AnnotationsWellFormed(lines) ==
    \A n \in Checked(lines) :
        /\ Contains(lines[n], <<"@", "database">>) \/ Contains(lines[n], <<"@", "table">>)
               => StringAnnotation(lines[n])
        /\ Contains(lines[n], <<"@", "meta">>) => MetaObject(lines[n])
ColumnsDeclared(file) ==
    Includes(file.path, TableSuffix) => \E n \in 1..Len(file.lines) : Contains(file.lines[n], <<"@", "columns">>)
VarcharHasLength(lines) ==
    \A n \in Checked(lines) :
        Contains(lines[n], <<"type", ":", SP, DQ, "varchar", DQ>>)
            => \E k \in n..(n + 4) : k <= Len(lines) /\ Contains(lines[k], <<"length", ":">>)
OptionsAcceptable(lines) ==
    \A n \in Checked(lines) :
        IsOptionsLine(lines[n])
            => /\ ~InvalidSyntaxMatch(OptionsContent(lines[n]))
               /\ \A option \in Range(OptionMatches(OptionsContent(lines[n]))) :
                     /\ Trim(option) # <<>>
                     /\ \/ getColumnTypeForOptions(lines, n) = <<"unknown">>
                        \/ isOptionCompatibleWithType(option, getColumnTypeForOptions(lines, n))
PropertiesAcceptable(lines) ==
    \A n \in Checked(lines) :
        KeyColon(lines[n]) # 0 /\ ~OpensBlock(lines[n])
            => IF isInsideForeignKeyObject(lines, n)
               THEN PropertyName(lines[n]) \in validForeignKeyProperties
               ELSE /\ isInsideColumnsBlock(lines, n)
                        => PropertyName(lines[n]) \in validProperties
                    /\ ~MissingValue(lines[n])
ColumnsTyped(lines) ==
    \A n \in Checked(lines) :
        ClosesBlock(lines[n]) /\ ColumnStart(lines, n - 1, n) # 0
            => \/ PropertyName(lines[ColumnStart(lines, n - 1, n)]) \in {"foreign", "defaultValue"}
               \/ \E i \in (ColumnStart(lines, n - 1, n) + 1)..(n - 1) : TypeKey(lines[i])
QuotesBalanced(lines) ==
    \A n \in Checked(lines) : (CountOf(lines[n], DQ) + CountOf(lines[n], SQ)) % 2 = 0
OtherRulesKept(file) ==
    /\ AnnotationsWellFormed(file.lines)
    /\ ColumnsDeclared(file)
    /\ VarcharHasLength(file.lines)
    /\ OptionsAcceptable(file.lines)
    /\ PropertiesAcceptable(file.lines)
    /\ ColumnsTyped(file.lines)
    /\ QuotesBalanced(file.lines)
Accepted(result) == result.isValid /\ result.errors = <<>>

VarcharLine(line) == Contains(line, <<"type", ":", SP, DQ, "varchar", DQ>>)
LengthInWindow(lines, n) ==
    \E k \in n..(n + 4) : k <= Len(lines) /\ Contains(lines[k], <<"length", ":">>)
\* how many errors of the kind the result holds for line n
ErrorsAt(result, kind, n) ==
    Cardinality({k \in 1..Len(result.errors) :
                    result.errors[k].error = kind /\ result.errors[k].lineNumber = n})
VarcharError == "VARCHAR type requires a length specification"
VarcharRule(lines, n) ==
    VarcharLine(lines[n])
        => ErrorsAt(vres, VarcharError, n) = (IF LengthInWindow(lines, n) THEN 0 ELSE 1)

\* C11 as claimed: every line of the file that contains type: "varchar" gets
\* exactly one VARCHAR error at its own number when neither it nor one of the
\* next four lines contains length:, and none when one of them does.
C11_VarcharWindowAnyLine ==
    vres.returned /\ vfile.readable
        => \A n \in 1..Len(vfile.lines) : VarcharRule(vfile.lines, n)

\* C11: the same for every line that is neither blank nor a comment (a line
\* the validator skips gets no error at all).
C11_VarcharWindow ==
    vres.returned /\ vfile.readable
        => \A n \in Checked(vfile.lines) : VarcharRule(vfile.lines, n)
\* a varchar line whose length: comes five lines below it, just outside the
\* window, reported once at the varchar line
C11_Witness ==
    /\ vres.returned
    /\ vfile.readable
    /\ \E n \in Checked(vfile.lines) :
          /\ VarcharLine(vfile.lines[n])
          /\ ~LengthInWindow(vfile.lines, n)
          /\ n + 5 <= Len(vfile.lines)
          /\ Contains(vfile.lines[n + 5], <<"length", ":">>)
          /\ ErrorsAt(vres, VarcharError, n) = 1

\* a word of an options list that stands outside every pair of quotes
QuotesBefore(content, p, quote) == Cardinality({m \in 1..(p - 1) : content[m] = quote})
BareWordAt(content, p) ==
    /\ IsWord(content[p])
    /\ QuotesBefore(content, p, DQ) % 2 = 0
    /\ QuotesBefore(content, p, SQ) % 2 = 0
HasBareWord(content) == \E p \in 1..Len(content) : BareWordAt(content, p)
SyntaxError == "Invalid syntax in options array"
OptionLevelErrors == {"Empty option", "Invalid option", "Option not compatible with type"}

\* C12: an options line whose list holds an unquoted bare word, at any
\* position, gets exactly one invalid-syntax error and no option-level error;
\* a list made only of quoted strings, double or single quoted, gets no
\* invalid-syntax error.
C12_BareWordIsSyntaxError ==
    vres.returned /\ vfile.readable
        => \A n \in Checked(vfile.lines) :
              IsOptionsLine(vfile.lines[n])
                  => IF HasBareWord(OptionsContent(vfile.lines[n]))
                     THEN /\ ErrorsAt(vres, SyntaxError, n) = 1
                          /\ \A kind \in OptionLevelErrors : ErrorsAt(vres, kind, n) = 0
                     ELSE ErrorsAt(vres, SyntaxError, n) = 0

\* a step of the run that validated the current file
ValidationStep == run.pc = "validate" /\ run' # run /\ run'.pc # "aborted"
\* what validateCubeFile returns for a file that cannot be read
ReadFailureReported(result) ==
    /\ result.returned
    /\ ~result.isValid
    /\ Len(result.errors) = 1
    /\ result.errors[1].error = "Failed to read cube file"
    /\ result.errors[1].lineNumber = 1
\* the run took the failure for a validation error of that one file and went
\* on with the next one
ContinuedAfterValidationError ==
    /\ run'.index = run.index + 1
    /\ run'.pc = (IF run.index < Len(run.ordered) THEN "validate" ELSE "done")
    /\ run'.failedTables = run.failedTables \cup {CurrentTable(cube, run)}
    /\ Len(run'.errors) = Len(run.errors) + 1
    /\ LastError(run').kind = "validation"
    /\ LastError(run').file = CurrentFile(run)
    /\ run'.processedTables = run.processedTables
    /\ run'.engineLog = run.engineLog

Handled(r) == 1..(r.index - 1)
FailureKinds == {"validation", "dependency", "exception"}
\* file f of the run ended with a recorded failure of one of the three kinds
FailedFile(r, f) ==
    \E k \in 1..Len(r.errors) : r.errors[k].file = f /\ r.errors[k].kind \in FailureKinds
FailedSetGrows == run.failedTables \subseteq run'.failedTables
FailedExactlyWhenNotProcessed ==
    \A i \in Handled(run) :
        LET table == TableNameOf(cube, run.ordered[i])
        IN /\ table \in run.failedTables <=> FailedFile(run, run.ordered[i])
           /\ table \in run.failedTables <=> ~Includes(run.processedTables, table)

Enters(pc) == run'.pc = pc /\ run' # run
SameFileNoFailure ==
    /\ run'.index = run.index
    /\ run'.errors = run.errors
    /\ run'.failedTables = run.failedTables
EngineInvoked == run'.engineLog # run.engineLog
ValidationFailed(r, f) ==
    \E k \in 1..Len(r.errors) : r.errors[k].file = f /\ r.errors[k].kind = "validation"
StepsInOrder ==
    /\ Enters("depcheck") => run.pc = "validate" /\ SameFileNoFailure
    /\ Enters("parse") => run.pc = "depcheck" /\ SameFileNoFailure
    /\ Enters("generate") => run.pc = "parse" /\ SameFileNoFailure
    /\ Enters("execute") => run.pc = "generate" /\ SameFileNoFailure
    /\ EngineInvoked => /\ run.pc \in {"parse", "generate", "execute"}
                        /\ run'.engineLog = run.engineLog \cup {CurrentFile(run)}
                        /\ ~ValidationFailed(run, CurrentFile(run))

\* C16: for each file of a run the steps come in the order validation,
\* failed-dependency check, engine calls parse, generate, execute: the
\* dependency check is entered only from a validation that passed, the engine
\* only from a dependency check that passed, and no file whose validation
\* failed is ever sent to the engine.
C16_ValidationThenCheckThenEngine ==
    [][StepsInOrder]_vars
    /\ [](\A f \in run.engineLog : ~ValidationFailed(run, f))
\* a finished run with a file that failed validation and a file the engine
\* processed
C16_Witness ==
    /\ run.pc = "done"
    /\ \E f \in Range(run.ordered) : ValidationFailed(run, f) /\ f \notin run.engineLog
    /\ \E f \in run.engineLog : Includes(run.processedTables, TableNameOf(cube, f))

\* the cube files of the run as the resolver sees them
RunDependencies == extractDependencies(cube, ScanList(cube))

\* C17: with acyclic dependencies and unique table names, whenever the engine
\* is invoked for a table, every table of the run that it references has been
\* processed successfully earlier in the run.
C17_EngineAfterDependencies ==
    [][EngineInvoked /\ UniqueNames(RunDependencies) /\ Acyclic(RunDependencies)
          => \A r \in Range(NamesOf(RunDependencies)) :
                References(RunDependencies, CurrentTable(cube, run), r)
                    => Includes(run.processedTables, r)]_vars

\* the files of the run that come after the current one
LaterFiles == {run.ordered[k] : k \in (run.index + 1)..Len(run.ordered)}
\* no validation, dependency check or engine call has been made for file f
Untouched(f) ==
    /\ f \notin run.engineLog
    /\ \A k \in 1..Len(run.errors) : run.errors[k].file # f
    /\ ~Includes(run.processedTables, TableNameOf(cube, f))

\* C22: once an engine step of a run has returned a status other than 200 the
\* run is halted: it stays at the file of that step, no step changes anything
\* afterwards, and no later file has been or is validated, dependency-checked
\* or sent to the engine.
C22_HaltOnEngineStatus ==
    /\ [](run.status # 200 =>
            /\ run.pc = "exited"
            /\ CurrentFile(run) \in run.engineLog
            /\ \A f \in LaterFiles : Untouched(f))
    /\ [][run.status # 200 => UNCHANGED <<run, vfile, vres, orderFile>>]_vars
\* a run halted by the engine at its second file with a file still to come
C22_Witness ==
    /\ run.status # 200
    /\ run.index = 2
    /\ Len(run.ordered) = 3
    /\ Len(run.processedTables) = 1

MissingValueError == "Property is missing a value"
\* the result holds the missing-value error of the property of line n
MissingValueReported(lines, n) ==
    \E k \in 1..Len(vres.errors) :
        /\ vres.errors[k].error = MissingValueError
        /\ vres.errors[k].lineNumber = n
        /\ vres.errors[k].about = <<PropertyName(lines[n])>>

\* C23: every line that is neither blank nor a comment and reads name: with
\* nothing after the colon gets the error "Property 'name' is missing a
\* value" at its own number, inside a foreign object, inside the @columns
\* block and outside both.
C23_MissingValueEverywhere ==
    (vres.returned /\ vfile.readable) =>
        \A n \in Checked(vfile.lines) :
            MissingValue(vfile.lines[n]) => MissingValueReported(vfile.lines, n)

MissingTypeError == "Column is missing required 'type' property"
\* line n closes the block that line i opens: n is a bare } line and i is the
\* nearest name: { line above it whose braces balance up to n
ClosesBlockOf(lines, i, n) ==
    /\ i < n
    /\ ClosesBlock(lines[n])
    /\ OpensBlock(lines[i])
    /\ BraceSum(lines, i, n) = 0
    /\ \A k \in (i + 1)..(n - 1) : ~(OpensBlock(lines[k]) /\ BraceSum(lines, k, n) = 0)
\* the body of the block from line i to line n declares no type, and the
\* block is one that has to
LacksType(lines, i, n) ==
    /\ \A k \in (i + 1)..(n - 1) : ~TypeKey(lines[k])
    /\ PropertyName(lines[i]) \notin {"foreign", "defaultValue"}
\* the missing-type errors of the result that point at line i
MissingTypeErrorsAt(i) ==
    {k \in 1..Len(vres.errors) :
        vres.errors[k].error = MissingTypeError /\ vres.errors[k].lineNumber = i}

\* C24: a block name: { with its closing line gets exactly one missing-type
\* error, at the number of its opening line and naming the block, when its
\* body declares no type and its name is neither foreign nor defaultValue,
\* and no such error otherwise; no other line has such an error.
C24_MissingTypeAtOpeningLine ==
    (vres.returned /\ vfile.readable) =>
        /\ \A i, n \in 1..Len(vfile.lines) :
              ClosesBlockOf(vfile.lines, i, n) =>
                 /\ Cardinality(MissingTypeErrorsAt(i)) =
                       (IF LacksType(vfile.lines, i, n) THEN 1 ELSE 0)
                 /\ \A k \in MissingTypeErrorsAt(i) :
                       vres.errors[k].about = <<PropertyName(vfile.lines[i])>>
        /\ \A i \in 1..Len(vfile.lines) :
              MissingTypeErrorsAt(i) # {} =>
                 \E n \in 1..Len(vfile.lines) : ClosesBlockOf(vfile.lines, i, n)
\* a column without a type that holds a defaultValue object: one error at the
\* column's opening line, none at the object's
C24_Witness ==
    /\ vres.returned
    /\ vfile.readable
    /\ \E i, j, m, n \in 1..Len(vfile.lines) :
          /\ i < j /\ m < n
          /\ ClosesBlockOf(vfile.lines, i, n)
          /\ ClosesBlockOf(vfile.lines, j, m)
          /\ PropertyName(vfile.lines[j]) = "defaultValue"
          /\ LacksType(vfile.lines, i, n)
          /\ Cardinality(MissingTypeErrorsAt(i)) = 1
          /\ MissingTypeErrorsAt(j) = {}

IncompatibleError == "Option not compatible with type"
\* the lines of the block from line i to line n that stand in the block
\* itself, not in an object nested in it
OwnLines(lines, i, n) ==
    {k \in (i + 1)..(n - 1) : ~SkippedLine(lines[k]) /\ BraceSum(lines, i, k - 1) = 1}
\* the whitelisted options that the options line holds between double quotes
ListedOptions(line) == Range(OptionMatches(OptionsContent(line))) \cap validOptions
\* the result holds the incompatibility error of the option for line m
IncompatibleReported(option, m) ==
    \E k \in 1..Len(vres.errors) :
        /\ vres.errors[k].error = IncompatibleError
        /\ vres.errors[k].lineNumber = m
        /\ vres.errors[k].about = option
\* a nested object stands between the type line k and the options line m
ObjectBetween(lines, k, m) == \E j \in (k + 1)..(m - 1) : OpensBlock(lines[j])

\* C25: in every column block that declares a type T and holds an options
\* list, each whitelisted option of the list is reported as not compatible,
\* on the options line, exactly when its compatibility list excludes T.
C25_IncompatibleOptionReported ==
    (vres.returned /\ vfile.readable) =>
        \A i, n \in 1..Len(vfile.lines) :
            ClosesBlockOf(vfile.lines, i, n) =>
                \A k, m \in OwnLines(vfile.lines, i, n) :
                    (QuotedTypeOf(vfile.lines[k]) # <<>> /\ IsOptionsLine(vfile.lines[m])) =>
                        \A option \in ListedOptions(vfile.lines[m]) :
                            IncompatibleReported(option, m)
                              <=> QuotedTypeOf(vfile.lines[k]) \notin compatibilityRules(option)

DatabaseError == "Missing required @database annotation"
ColumnsError == "Table cube files require @columns annotation"
\* the path ends in the suffix of table files
EndsInTableSuffix(filePath) == Len(filePath) > 0 /\ filePath[Len(filePath)] = TableSuffix
HasAnnotation(lines, name) == \E n \in 1..Len(lines) : Contains(lines[n], <<"@", name>>)
\* the places of the result that hold a file-level error
FileLevel == {k \in 1..Len(vres.errors) : vres.errors[k].error \in {DatabaseError, ColumnsError}}

\* C26: a file without @database gets the @database error at line 1, a file
\* whose path ends in the table suffix and that has no @columns gets the
\* @columns error at line 1, the file-level errors stand after every other
\* error, and a file whose path does not end in the table suffix has no
\* @columns error.
C26_FileLevelErrors ==
    (vres.returned /\ vfile.readable) =>
        /\ ~HasAnnotation(vfile.lines, "database") => ErrorsAt(vres, DatabaseError, 1) = 1
        /\ (EndsInTableSuffix(vfile.path) /\ ~HasAnnotation(vfile.lines, "columns"))
              => ErrorsAt(vres, ColumnsError, 1) = 1
        /\ \A k \in FileLevel : \A j \in 1..Len(vres.errors) : j > k => j \in FileLevel
        /\ ~EndsInTableSuffix(vfile.path) => \A k \in FileLevel : vres.errors[k].error # ColumnsError

(***************************************************************************)
(* Claims about the scans for foreign key references                       *)
(***************************************************************************)
Scanned == call.op \in {"references", "dependencies"}
\* line n lies in a foreign object opened on an earlier line and not closed
\* before it
InForeignObject(lines, n) ==
    \E i \in 1..(n - 1) :
        /\ ForeignOpen(lines[i])
        /\ \A k \in i..(n - 1) : BraceSum(lines, i, k) > 0
\* the name that line n assigns to table inside a foreign object: on the
\* opening line itself or on a line of an object still open
ForeignTableAt(lines, n) ==
    IF ForeignOpen(lines[n]) \/ InForeignObject(lines, n)
    THEN TableAssigned(lines[n]) ELSE <<>>
RECURSIVE ForeignTables(_, _)
\* the names assigned to table inside foreign objects, in file order
ForeignTables(lines, n) ==
    IF n > Len(lines) THEN <<>>
    ELSE (IF ForeignTableAt(lines, n) # <<>> THEN <<ForeignTableAt(lines, n)>> ELSE <<>>)
         \o ForeignTables(lines, n + 1)

\* C27: extractForeignKeyReferences returns exactly the names assigned to
\* table inside foreign objects, in file order and with repetitions; a table
\* assignment outside every foreign object is not in the list.
C27_ExactlyForeignTables ==
    (call.op = "references" /\ vfile.readable) =>
        call.ret = ForeignTables(vfile.lines, 1)

\* C28: the scan of Schema and the scan of DependencyResolver return the same
\* list for every file, and the empty list for a file that cannot be read.
C28_SameScan ==
    /\ call.op = "references" => call.ret = extractForeignKeyDependenciesOf(vfile)
    /\ call.op = "dependencies" => call.ret = extractForeignKeyReferencesOf(vfile)
    /\ (Scanned /\ ~vfile.readable) => call.ret = <<>>
\* Schema's scan of a file with a one-line foreign object, a table line after
\* it and a table line in an open foreign object
C28_Witness ==
    /\ call.op = "dependencies"
    /\ vfile.readable
    /\ \E i, j \in 1..(Len(vfile.lines) - 1) :
          /\ vfile.lines[i] = ForeignInlineLine
          /\ vfile.lines[i + 1] = TableLine(DQ, "B")
          /\ i + 1 < j
          /\ vfile.lines[j] = ForeignOpenLine
          /\ vfile.lines[j + 1] = TableLine(DQ, "B")
    /\ call.ret = << <<"A">>, <<"B">> >>

(***************************************************************************)
(* Claims about the steps of topologicalSort                               *)
(***************************************************************************)
\* a step of the Kahn loop that dequeues the head of the queue
DequeueStep == ts.pc = "kahn" /\ ts.queue # <<>> /\ ts' # ts
\* the tables that list n among their dependencies
DependentsOf(s, n) == {t \in DOMAIN s.graph : Includes(s.graph[t], n)}

\* C15: when the Kahn loop dequeues a node N, the in-degree of every table
\* that lists N among its dependencies goes down, and such a table is in the
\* queue once its in-degree is zero.
C15_DecrementsDependents ==
    [][DequeueStep
          => \A t \in DependentsOf(ts, Head(ts.queue)) \ {Head(ts.queue)} :
                /\ ts'.inDegree[t] < ts.inDegree[t]
                /\ ts'.inDegree[t] = 0 => Includes(ts'.queue, t)]_vars

\* the in-degrees are computed: every step after the build loops
DegreesBuilt == ts.pc \in {"seed", "kahn", "fallback", "done"}
\* the references of the files named t, as (file, position) pairs
ReferencesOf(dependencies, t) ==
    UNION {{<<i, j>> : j \in 1..Len(dependencies[i].dependencies)} :
              i \in {k \in 1..Len(dependencies) : dependencies[k].tableName = t}}
RefersToNode(dependencies, p) ==
    dependencies[p[1]].dependencies[p[2]] \in Range(NamesOf(dependencies))
OnlyUnknownReferences(dependencies, t) ==
    \A p \in ReferencesOf(dependencies, t) : ~RefersToNode(dependencies, p)

\* C18: a reference to a name that no input file declares adds nothing to
\* the in-degree of the referencing table (the in-degree set up is the
\* number of its references to nodes), and a table whose references all name
\* unknown tables has in-degree zero and is in the result when the Kahn loop
\* ends, before the cycle fallback.
C18_UnknownReferencesIgnored ==
    /\ ts.pc = "seed"
          => \A t \in SortNames :
                ts.inDegree[t] = Cardinality({p \in ReferencesOf(ts.dependencies, t) :
                                                 RefersToNode(ts.dependencies, p)})
    /\ DegreesBuilt
          => \A t \in SortNames :
                OnlyUnknownReferences(ts.dependencies, t)
                    => /\ ts.inDegree[t] = 0
                       /\ ts.pc \in {"fallback", "done"} => Includes(ts.result, t)
\* the Kahn loop has ended short of a node, with a table in the result whose
\* only references name an unknown table
C18_Witness ==
    /\ ts.pc = "fallback"
    /\ Len(ts.result) < Len(ts.nodes)
    /\ \E t \in SortNames :
          /\ OnlyUnknownReferences(ts.dependencies, t)
          /\ ReferencesOf(ts.dependencies, t) # {}
          /\ Includes(ts.result, t)

\* the position of the first file named t in the input list
FirstAt(dependencies, t) == IndexOf(NamesOf(dependencies), t)
\* the tables that start with in-degree zero: no reference to a node
ZeroDegree(dependencies) ==
    {t \in Range(NamesOf(dependencies)) : OnlyUnknownReferences(dependencies, t)}
InEncounterOrder(dependencies, list) ==
    \A i, j \in 1..Len(list) :
        i < j => FirstAt(dependencies, list[i]) < FirstAt(dependencies, list[j])
JustSeeded == ts.pc = "kahn" /\ ts.result = <<>>

\* C19: the tables of in-degree zero enter the queue in the order in which
\* their files are first met in the input list, and stand in the result in
\* that order: no re-sorting is applied.
C19_ZeroDegreeInEncounterOrder ==
    /\ JustSeeded
          => /\ Range(ts.queue) = ZeroDegree(ts.dependencies)
             /\ InEncounterOrder(ts.dependencies, ts.queue)
    /\ ts.pc \in {"fallback", "done"}
          => InEncounterOrder(ts.dependencies,
                              SelectSeq(ts.result,
                                        LAMBDA t : t \in ZeroDegree(ts.dependencies)))
\* two tables of in-degree zero met in the order B, A stand in the result in
\* that order
C19_Witness ==
    /\ SortDone
    /\ {"A", "B"} \subseteq ZeroDegree(ts.dependencies)
    /\ FirstAt(ts.dependencies, "B") < FirstAt(ts.dependencies, "A")
    /\ Before(ts.result, "B", "A")

\* the step that runs the circular-dependency fallback and returns
FallbackStep == ts.pc = "fallback" /\ ts'.pc = "done"
Appended == SubSeq(ts'.result, Len(ts.result) + 1, Len(ts'.result))

\* C20: when the Kahn loop ends with fewer nodes in the result than the input
\* has, the nodes not yet in the result are appended after the sorted prefix
\* in their encounter order, each once, and the prefix is left as it was.
C20_FallbackAppendsRest ==
    [][FallbackStep /\ Len(ts.result) < Len(ts.nodes)
          => /\ Len(ts'.result) >= Len(ts.result)
             /\ SubSeq(ts'.result, 1, Len(ts.result)) = ts.result
             /\ Range(Appended) = Range(ts.nodes) \ Range(ts.result)
             /\ InEncounterOrder(ts.dependencies, Appended)]_vars
\* the files C, B, A with C referencing B and B referencing A: A is the
\* sorted prefix, C and B are appended in input order
C20_Witness ==
    /\ SortDone
    /\ ZeroDegree(ts.dependencies) = {"A"}
    /\ NamesOf(ts.dependencies) = <<"C", "B", "A">>
    /\ ts.result = <<"A", "C", "B">>

\* C29: during topologicalSort no in-degree is ever negative and no node is
\* on the queue twice or on the queue after it was appended to the result,
\* so the Kahn loop appends no table name twice.
C29_QueuedOnce ==
    /\ \A t \in DOMAIN ts.inDegree : ts.inDegree[t] >= 0
    /\ ts.pc \in {"kahn", "fallback"} => NoDup(ts.result \o ts.queue)
\* the Kahn loop in its course: one node appended, one still queued, and a
\* node with two known references left out
C29_Witness ==
    /\ ts.pc = "kahn"
    /\ Len(ts.result) = 1
    /\ Len(ts.queue) = 1
    /\ \E t \in DOMAIN ts.inDegree : ts.inDegree[t] >= 2

====
